---- MODULE Spec2Model ----
(***************************************************************************)
(* psp-logger: a log::Log implementation that writes to the PSP's stdout   *)
(* and stderr.  The model covers PspLoggerConfig and its builder, the      *)
(* PspLogger dispatcher (enabled / log / flush), psp_write and the         *)
(* PspLogger::init registration sequence, together with the parts of the   *)
(* `log` and `spin` crates that init and the dispatcher rely on.           *)
(***************************************************************************)
EXTENDS Integers, Sequences, FiniteSets, TLC

(* ------------------------------ bounds -------------------------------- *)
\* total number of PspLogger::init calls started in one behaviour
MaxInits == 3
\* dispatcher evaluations (enabled / log) made while init calls are running
MaxEvents == 1
\* dispatcher evaluations made against an installed configuration
MaxEmits == 3
\* number of with_*_stream calls chained after PspLoggerConfig::new
MaxOverrides == 3

(* ------------------------------ data ---------------------------------- *)
\* enum OutputStream
OutputStream == {"StdOut", "StdErr"}

\* log::Level and log::LevelFilter as imported by the crate
Level == {"Error", "Warn", "Info", "Debug", "Trace"}
LevelFilter == {"Off"} \cup Level

\* the discriminants the comparison `Level <= LevelFilter` is made on
LevelUsize(l) ==
    CASE l = "Error" -> 1 [] l = "Warn" -> 2 [] l = "Info" -> 3
      [] l = "Debug" -> 4 [] l = "Trace" -> 5

FilterUsize(f) ==
    CASE f = "Off" -> 0 [] f = "Error" -> 1 [] f = "Warn" -> 2
      [] f = "Info" -> 3 [] f = "Debug" -> 4 [] f = "Trace" -> 5

\* struct PspLoggerConfig
PspLoggerConfig ==
    [error_stream : OutputStream, warn_stream : OutputStream,
     info_stream : OutputStream, debug_stream : OutputStream,
     trace_stream : OutputStream, level_filter : LevelFilter]

\* Option<T>: None is the empty sequence, Some(x) the one-element sequence
None == << >>
Some(x) == << x >>
unwrap(o) == o[1]

(* --------------------------- PspLoggerConfig --------------------------- *)
\* PspLoggerConfig::new
new(level_filter) ==
    [error_stream |-> "StdErr", warn_stream |-> "StdErr",
     info_stream |-> "StdErr", debug_stream |-> "StdErr",
     trace_stream |-> "StdErr", level_filter |-> level_filter]

with_error_stream(self, stream) == [self EXCEPT !.error_stream = stream]

with_warn_stream(self, stream) == [self EXCEPT !.warn_stream = stream]

with_info_stream(self, stream) == [self EXCEPT !.info_stream = stream]

\* slip: with_debug_stream assigning the neighbouring field
with_debug_stream_slip(self, stream) == [self EXCEPT !.info_stream = stream]

with_debug_stream(self, stream) == [self EXCEPT !.debug_stream = stream]

with_trace_stream(self, stream) == [self EXCEPT !.trace_stream = stream]

\* PspLoggerConfig::get_stream
get_stream(self, level) ==
    CASE level = "Error" -> self.error_stream
      [] level = "Warn" -> self.warn_stream
      [] level = "Info" -> self.info_stream
      [] level = "Debug" -> self.debug_stream
      [] level = "Trace" -> self.trace_stream

(* ------------------------------ state ---------------------------------- *)
VARIABLES
    LOGGER_CONF,   \* static LOGGER_CONF: spin::Once<PspLoggerConfig>
    logger,        \* the log crate's registered logger: "Nop", "Psp" or "Other"
    max_level,     \* the log crate's global maximum level (log::max_level())
    pc,            \* per thread: where its PspLogger::init call stands
    config,        \* per thread: the `config` argument of its init call
    level_filter,  \* per thread: the local `level_filter` of its init call
    ret,           \* per thread: what its last init call returned
    stored,        \* per thread: its current/last init call populated LOGGER_CONF
    late,          \* per thread: its current/last init call began after some init returned
    completed,     \* some init call has returned
    inits,         \* init calls started so far
    budget,        \* dispatcher evaluations still to be made
    writes,        \* the sceIoWrite calls issued so far, in order
    last,          \* the outcome of the most recent dispatcher evaluation
    cfg,           \* builder chain: the PspLoggerConfig value in hand
    prev,          \* builder chain: the value before the last builder call
    hist           \* builder chain: the builder calls made so far

vars == << LOGGER_CONF, logger, max_level, pc, config, level_filter, ret, stored,
           late, completed, inits, budget, writes, last, cfg, prev, hist >>

registry == << LOGGER_CONF, logger, max_level >>
initvars == << pc, config, level_filter, ret, stored, late, completed, inits >>
dispatchvars == << budget, writes, last >>
buildervars == << cfg, prev, hist >>

\* the threads that may call PspLogger::init
Threads == {"t1", "t2"}

\* message payloads handed to log (record.args() once rendered): "" and "ready"
Ready == << 114, 101, 97, 100, 121 >>
Payloads == { << >>, Ready }

\* configurations passed to init: the crate-level doc example and two further chains
InitConfigs ==
    { with_info_stream(with_debug_stream(new("Debug"), "StdOut"), "StdOut"),
      with_error_stream(new("Error"), "StdOut"),
      new("Trace") }

\* what log::max_level() may be at process start: the log crate's initial Off,
\* or a level set by the application or by a backend that registered first
AmbientMaxLevels == {"Off", "Warn"}

NoCall == [op |-> "none", via |-> "none", level |-> "Error", args |-> << >>,
           panicked |-> FALSE, ret |-> FALSE, rc |-> "none"]

(* --------------------------- PspLogger::init --------------------------- *)
\* entry of init: `let level_filter = config.level_filter;`
InitCall(t, c) ==
    /\ pc[t] = "idle"
    /\ inits < MaxInits
    /\ inits' = inits + 1
    /\ pc' = [pc EXCEPT ![t] = "call_once"]
    /\ config' = [config EXCEPT ![t] = Some(c)]
    /\ level_filter' = [level_filter EXCEPT ![t] = Some(c.level_filter)]
    /\ ret' = [ret EXCEPT ![t] = "none"]
    /\ stored' = [stored EXCEPT ![t] = FALSE]
    /\ late' = [late EXCEPT ![t] = completed]
    /\ UNCHANGED << registry, completed, dispatchvars, buildervars >>

\* slip: a store that is not once-only and not whole (the threshold field is
\* written even when the cell is already populated)
call_once_torn(t) ==
    /\ pc[t] = "call_once"
    /\ IF LOGGER_CONF = None
         THEN /\ LOGGER_CONF' = Some(unwrap(config[t]))
              /\ stored' = [stored EXCEPT ![t] = TRUE]
         ELSE /\ LOGGER_CONF' = Some([unwrap(LOGGER_CONF) EXCEPT
                                        !.level_filter = unwrap(config[t]).level_filter])
              /\ UNCHANGED stored
    /\ pc' = [pc EXCEPT ![t] = "set_logger"]
    /\ UNCHANGED << logger, max_level, config, level_filter, ret, late, completed,
                    inits, dispatchvars, buildervars >>

\* slip: a plain assignment in place of the once-only store
call_once_overwrite(t) ==
    /\ pc[t] = "call_once"
    /\ LOGGER_CONF' = Some(unwrap(config[t]))
    /\ stored' = [stored EXCEPT ![t] = TRUE]
    /\ pc' = [pc EXCEPT ![t] = "set_logger"]
    /\ UNCHANGED << logger, max_level, config, level_filter, ret, late, completed,
                    inits, dispatchvars, buildervars >>

\* slip: init going on to set_logger without having stored the configuration
call_once_skip(t) ==
    /\ pc[t] = "call_once"
    /\ pc' = [pc EXCEPT ![t] = "set_logger"]
    /\ UNCHANGED << registry, config, level_filter, ret, stored, late, completed,
                    inits, dispatchvars, buildervars >>

\* `LOGGER_CONF.call_once(|| config);`  spin::Once runs the closure only when
\* the cell is still empty, and does so atomically with respect to other callers
call_once(t) ==
    /\ pc[t] = "call_once"
    /\ IF LOGGER_CONF = None
         THEN /\ LOGGER_CONF' = Some(unwrap(config[t]))
              /\ stored' = [stored EXCEPT ![t] = TRUE]
         ELSE UNCHANGED << LOGGER_CONF, stored >>
    /\ pc' = [pc EXCEPT ![t] = "set_logger"]
    /\ UNCHANGED << logger, max_level, config, level_filter, ret, late, completed,
                    inits, dispatchvars, buildervars >>

\* slip: the result of set_logger not deciding whether set_max_level runs
set_logger_always_level(t) ==
    /\ pc[t] = "set_logger"
    /\ logger' = (IF logger = "Nop" THEN "Psp" ELSE logger)
    /\ pc' = [pc EXCEPT ![t] = "set_max_level"]
    /\ UNCHANGED << LOGGER_CONF, max_level, config, level_filter, ret, stored, late,
                    completed, inits, dispatchvars, buildervars >>

\* `log::set_logger(&LOGGER)`: succeeds only when no logger is registered yet;
\* on Err the `.map(..)` closure is skipped and init returns the error
set_logger(t) ==
    /\ pc[t] = "set_logger"
    /\ IF logger = "Nop"
         THEN /\ logger' = "Psp"
              /\ pc' = [pc EXCEPT ![t] = "set_max_level"]
              /\ UNCHANGED << ret, completed >>
         ELSE /\ ret' = [ret EXCEPT ![t] = "Err"]
              /\ pc' = [pc EXCEPT ![t] = "idle"]
              /\ completed' = TRUE
              /\ UNCHANGED logger
    /\ UNCHANGED << LOGGER_CONF, max_level, config, level_filter, stored, late,
                    inits, dispatchvars, buildervars >>

\* `.map(|()| log::set_max_level(level_filter))`, then init returns Ok(())
set_max_level(t) ==
    /\ pc[t] = "set_max_level"
    /\ max_level' = unwrap(level_filter[t])
    /\ ret' = [ret EXCEPT ![t] = "Ok"]
    /\ pc' = [pc EXCEPT ![t] = "idle"]
    /\ completed' = TRUE
    /\ UNCHANGED << LOGGER_CONF, logger, config, level_filter, stored, late,
                    inits, dispatchvars, buildervars >>

(* --------------------------- impl log::Log ----------------------------- *)
\* slip: `<` in place of `<=`
enabled_strict(level) ==
    IF LOGGER_CONF = None
      THEN [panicked |-> TRUE, ret |-> FALSE]
      ELSE [panicked |-> FALSE,
            ret |-> LevelUsize(level) < FilterUsize(unwrap(LOGGER_CONF).level_filter)]

\* slip: an empty cell read as "nothing enabled" in place of the unwrap
enabled_default(level) ==
    IF LOGGER_CONF = None
      THEN [panicked |-> FALSE, ret |-> FALSE]
      ELSE [panicked |-> FALSE,
            ret |-> LevelUsize(level) <= FilterUsize(unwrap(LOGGER_CONF).level_filter)]

\* PspLogger::enabled: `metadata.level() <= LOGGER_CONF.get().unwrap().level_filter`
enabled(level) ==
    IF LOGGER_CONF = None
      THEN [panicked |-> TRUE, ret |-> FALSE]
      ELSE [panicked |-> FALSE,
            ret |-> LevelUsize(level) <= FilterUsize(unwrap(LOGGER_CONF).level_filter)]

\* slip: the terminating zero byte left out of the buffer
psp_write_no_nul(stream, args) ==
    LET fh == IF stream = "StdErr" THEN "sceKernelStderr" ELSE "sceKernelStdout"
        msg == args \o << 10 >>
    IN  Append(writes, [fh |-> fh, data |-> msg, size |-> Len(msg)])

\* psp_write: pick the handle, render `args`, append "\n\0", one sceIoWrite
psp_write(stream, args) ==
    LET fh == IF stream = "StdErr" THEN "sceKernelStderr" ELSE "sceKernelStdout"
        msg == args \o << 10, 0 >>
    IN  Append(writes, [fh |-> fh, data |-> msg, size |-> Len(msg)])

\* PspLogger::log; rc is what sceIoWrite returns, which psp_write drops
log(level, args, via, rc) ==
    IF LOGGER_CONF = None
      THEN /\ last' = [op |-> "log", via |-> via, level |-> level, args |-> args,
                       panicked |-> TRUE, ret |-> FALSE, rc |-> "none"]
           /\ UNCHANGED writes
      ELSE LET output == get_stream(unwrap(LOGGER_CONF), level)
           IN  IF enabled(level).ret
                 THEN /\ writes' = psp_write(output, args)
                      /\ last' = [op |-> "log", via |-> via, level |-> level,
                                  args |-> args, panicked |-> FALSE, ret |-> TRUE,
                                  rc |-> rc]
                 ELSE /\ UNCHANGED writes
                      /\ last' = [op |-> "log", via |-> via, level |-> level,
                                  args |-> args, panicked |-> FALSE, ret |-> FALSE,
                                  rc |-> "none"]

\* a caller evaluates PspLogger{}.enabled(..) itself (the struct is public)
DirectEnabled(level) ==
    /\ budget > 0
    /\ budget' = budget - 1
    /\ last' = [op |-> "enabled", via |-> "direct", level |-> level, args |-> << >>,
                panicked |-> enabled(level).panicked, ret |-> enabled(level).ret,
                rc |-> "none"]
    /\ UNCHANGED << registry, initvars, writes, buildervars >>

\* a caller evaluates PspLogger{}.log(..) itself
DirectLog(level, args, rc) ==
    /\ budget > 0
    /\ budget' = budget - 1
    /\ log(level, args, "direct", rc)
    /\ UNCHANGED << registry, initvars, buildervars >>

\* log::log_enabled!: `lvl <= log::max_level() && log::logger().enabled(..)`
MacroEnabled(level) ==
    /\ budget > 0
    /\ LevelUsize(level) <= FilterUsize(max_level)
    /\ logger = "Psp"
    /\ budget' = budget - 1
    /\ last' = [op |-> "enabled", via |-> "macro", level |-> level, args |-> << >>,
                panicked |-> enabled(level).panicked, ret |-> enabled(level).ret,
                rc |-> "none"]
    /\ UNCHANGED << registry, initvars, writes, buildervars >>

\* log::log! and error!/warn!/info!/debug!/trace!:
\* `if lvl <= log::max_level() { log::logger().log(record) }`
MacroLog(level, args, rc) ==
    /\ budget > 0
    /\ LevelUsize(level) <= FilterUsize(max_level)
    /\ logger = "Psp"
    /\ budget' = budget - 1
    /\ log(level, args, "macro", rc)
    /\ UNCHANGED << registry, initvars, buildervars >>

(* ------------------------ a builder call chain ------------------------- *)
\* `PspLoggerConfig::new(level_filter)` opens the chain
New(f) ==
    /\ cfg = None
    /\ cfg' = Some(new(f))
    /\ prev' = None
    /\ hist' = << [op |-> "new", arg |-> f] >>
    /\ UNCHANGED << registry, initvars, dispatchvars >>

\* one more `.with_<level>_stream(stream)` on the value in hand, giving `next`
Chain(op, stream, next) ==
    /\ cfg # None
    /\ Len(hist) <= MaxOverrides
    /\ cfg' = Some(next)
    /\ prev' = cfg
    /\ hist' = Append(hist, [op |-> op, arg |-> stream])
    /\ UNCHANGED << registry, initvars, dispatchvars >>

WithErrorStream(s) == Chain("with_error_stream", s, with_error_stream(unwrap(cfg), s))

WithWarnStream(s) == Chain("with_warn_stream", s, with_warn_stream(unwrap(cfg), s))

WithInfoStream(s) == Chain("with_info_stream", s, with_info_stream(unwrap(cfg), s))

WithDebugStream(s) == Chain("with_debug_stream", s, with_debug_stream(unwrap(cfg), s))

WithTraceStream(s) == Chain("with_trace_stream", s, with_trace_stream(unwrap(cfg), s))

(* --------------------------- specifications ---------------------------- *)
NoBuilder ==
    /\ cfg = None
    /\ prev = None
    /\ hist = << >>

\* the state right after thread t1 ran `PspLogger::init(c)` alone in a fresh process
Installed(c) ==
    /\ LOGGER_CONF = Some(c)
    /\ logger = "Psp"
    /\ max_level = c.level_filter
    /\ pc = [t \in Threads |-> "idle"]
    /\ config = [t \in Threads |-> IF t = "t1" THEN Some(c) ELSE None]
    /\ level_filter = [t \in Threads |-> IF t = "t1" THEN Some(c.level_filter) ELSE None]
    /\ ret = [t \in Threads |-> IF t = "t1" THEN "Ok" ELSE "none"]
    /\ stored = [t \in Threads |-> t = "t1"]
    /\ late = [t \in Threads |-> FALSE]
    /\ completed = TRUE
    /\ inits = 1
    /\ writes = << >>
    /\ last = NoCall
    /\ NoBuilder

\* process start: LOGGER_CONF empty; either no logger registered yet, or
\* another backend registered before the first init call
Init ==
    /\ LOGGER_CONF = None
    /\ logger \in {"Nop", "Other"}
    /\ max_level \in AmbientMaxLevels
    /\ pc = [t \in Threads |-> "idle"]
    /\ config = [t \in Threads |-> None]
    /\ level_filter = [t \in Threads |-> None]
    /\ ret = [t \in Threads |-> "none"]
    /\ stored = [t \in Threads |-> FALSE]
    /\ late = [t \in Threads |-> FALSE]
    /\ completed = FALSE
    /\ inits = 0
    /\ budget = MaxEvents
    /\ writes = << >>
    /\ last = NoCall
    /\ NoBuilder

Next ==
    \/ \E t \in Threads, c \in InitConfigs : InitCall(t, c)
    \/ \E t \in Threads : call_once(t)
    \/ \E t \in Threads : set_logger(t)
    \/ \E t \in Threads : set_max_level(t)
    \/ \E l \in Level : DirectEnabled(l)
    \/ \E l \in Level : DirectLog(l, Ready, "ok")
    \/ \E l \in Level : MacroEnabled(l)
    \/ \E l \in Level : MacroLog(l, Ready, "ok")

Spec == Init /\ [][Next]_vars

\* enabled() against every configuration the builder can produce
InitEnabled ==
    /\ \E c \in PspLoggerConfig : Installed(c)
    /\ budget = MaxEvents

NextEnabled ==
    \/ \E l \in Level : DirectEnabled(l)
    \/ \E l \in Level : MacroEnabled(l)

SpecEnabled == InitEnabled /\ [][NextEnabled]_vars

\* sequences of log() calls against an installed configuration
InitEmit ==
    /\ \E c \in InitConfigs : Installed(c)
    /\ budget = MaxEmits

NextEmit ==
    \/ \E l \in Level, a \in Payloads, rc \in {"ok", "fail"} : DirectLog(l, a, rc)
    \/ \E l \in Level, a \in Payloads, rc \in {"ok", "fail"} : MacroLog(l, a, rc)

SpecEmit == InitEmit /\ [][NextEmit]_vars

\* builder chains: new, then up to MaxOverrides with_*_stream calls
InitBuilder ==
    /\ LOGGER_CONF = None
    /\ logger = "Nop"
    /\ max_level = "Off"
    /\ pc = [t \in Threads |-> "idle"]
    /\ config = [t \in Threads |-> None]
    /\ level_filter = [t \in Threads |-> None]
    /\ ret = [t \in Threads |-> "none"]
    /\ stored = [t \in Threads |-> FALSE]
    /\ late = [t \in Threads |-> FALSE]
    /\ completed = FALSE
    /\ inits = 0
    /\ budget = 0
    /\ writes = << >>
    /\ last = NoCall
    /\ NoBuilder

NextBuilder ==
    \/ \E f \in LevelFilter : New(f)
    \/ \E s \in OutputStream : WithErrorStream(s)
    \/ \E s \in OutputStream : WithWarnStream(s)
    \/ \E s \in OutputStream : WithInfoStream(s)
    \/ \E s \in OutputStream : WithDebugStream(s)
    \/ \E s \in OutputStream : WithTraceStream(s)

SpecBuilder == InitBuilder /\ [][NextBuilder]_vars

(* ------------------------------- claims -------------------------------- *)
\* the severity ranking and the routing as the specification words them
ClaimRank == [Error |-> 1, Warn |-> 2, Info |-> 3, Debug |-> 4, Trace |-> 5]

ClaimEnabled(l, threshold) == threshold # "Off" /\ ClaimRank[l] <= ClaimRank[threshold]

ClaimField == [Error |-> "error_stream", Warn |-> "warn_stream", Info |-> "info_stream",
               Debug |-> "debug_stream", Trace |-> "trace_stream"]

ClaimHandle(channel) == IF channel = "StdOut" THEN "sceKernelStdout" ELSE "sceKernelStderr"

AllIdle == \A t \in Threads : pc[t] = "idle"

\* both threads made exactly one init call each, and each call began before any
\* init call had returned: two concurrent first installations
Race == inits = 2 /\ \A t \in Threads : config[t] # None /\ ~late[t]

\* C1: when two init calls race as the first installations, LOGGER_CONF ends up
\* holding exactly one of the two configurations passed (whole, never a mix),
\* and every enabled/log evaluation that finds a configuration answers from
\* that one configuration: its threshold and its level-to-stream mapping.
C1_RaceOneWinner ==
    Race =>
      /\ LOGGER_CONF # None => \E t \in Threads : LOGGER_CONF = config[t]
      /\ (\A t \in Threads : pc[t] # "call_once") => LOGGER_CONF # None
      /\ (last.op # "none" /\ ~last.panicked) =>
           /\ LOGGER_CONF # None
           /\ last.ret = ClaimEnabled(last.level, unwrap(LOGGER_CONF).level_filter)
           /\ (last.op = "log" /\ last.ret) =>
                /\ writes # << >>
                /\ writes[Len(writes)].fh =
                     ClaimHandle(unwrap(LOGGER_CONF)[ClaimField[last.level]])

\* the call that won the cell lost the registration, the two configurations
\* differ in threshold and mapping, and a log call was accepted afterwards
C1_Witness ==
    /\ Race
    /\ AllIdle
    /\ LOGGER_CONF = config["t2"]
    /\ ret["t1"] = "Ok"
    /\ ret["t2"] = "Err"
    /\ unwrap(config["t1"]).level_filter # unwrap(config["t2"]).level_filter
    /\ unwrap(config["t1"]).error_stream # unwrap(config["t2"]).error_stream
    /\ last.op = "log"
    /\ last.ret

\* C2: once an init call has returned, no step of an init call that began
\* afterwards changes LOGGER_CONF, the registered logger or the global maximum
\* level, so every enabled() result and every level's stream stay as they were;
\* a populated LOGGER_CONF is never cleared or overwritten by any step.
C2_LaterInitChangesNothing ==
    [][ /\ LOGGER_CONF # None =>
             /\ LOGGER_CONF' = LOGGER_CONF
             /\ \A l \in Level :
                  /\ enabled(l)' = enabled(l)
                  /\ get_stream(unwrap(LOGGER_CONF), l)' = get_stream(unwrap(LOGGER_CONF), l)
        /\ \A t \in Threads :
             (late[t] /\ pc[t] # "idle" /\ pc'[t] # pc[t]) => registry' = registry
      ]_vars

\* a later init call with another threshold and mapping has returned, and the
\* cell and the global maximum level are still those of the first call
C2_Witness ==
    \E t \in Threads :
      /\ late[t]
      /\ pc[t] = "idle"
      /\ ret[t] = "Err"
      /\ LOGGER_CONF # None
      /\ unwrap(config[t]).level_filter # unwrap(LOGGER_CONF).level_filter
      /\ unwrap(config[t]).error_stream # unwrap(LOGGER_CONF).error_stream
      /\ logger = "Psp"
      /\ max_level = unwrap(LOGGER_CONF).level_filter

\* C3: whenever no init call is in progress and PspLogger is the registered
\* logger, the global maximum level equals the threshold of the configuration
\* held in LOGGER_CONF.
C3_MaxLevelMatchesStored ==
    (AllIdle /\ logger = "Psp" /\ LOGGER_CONF # None) =>
       max_level = unwrap(LOGGER_CONF).level_filter

\* C4: LOGGER_CONF is populated only by an init call that returns Ok: every
\* returned init call that populated the cell returned Ok.
C4_PopulatedOnlyBySuccess ==
    \A t \in Threads : (pc[t] = "idle" /\ stored[t]) => ret[t] = "Ok"

\* C5: while another backend is the registered logger, every init call that
\* reaches set_logger returns Err (a value, no panic), the registered logger
\* stays that backend and the global maximum level is left unchanged.
C5_ConflictIsAnErrValue ==
    [][ logger = "Other" =>
          /\ logger' = "Other"
          /\ max_level' = max_level
          /\ \A t \in Threads :
               (pc[t] = "set_logger" /\ pc'[t] # pc[t]) =>
                  (pc'[t] = "idle" /\ ret'[t] = "Err")
      ]_vars

\* an init call has returned Err under another backend
C5_Witness ==
    /\ logger = "Other"
    /\ \E t \in Threads : pc[t] = "idle" /\ ret[t] = "Err"
    /\ max_level = "Warn"

\* C6: an enabled() or log() evaluation made while LOGGER_CONF is empty
\* panics, whatever the level, and issues no write.
C6_EmptyCellPanics ==
    [][ (budget' = budget - 1 /\ LOGGER_CONF = None) =>
          /\ last'.panicked
          /\ ~last'.ret
          /\ writes' = writes
      ]_vars

\* a log() call of the most severe level met the empty cell
C6_Witness ==
    /\ last.op = "log"
    /\ last.level = "Error"
    /\ last.panicked
    /\ writes = << >>

\* C7: with a configuration installed, enabled(L) is true iff
\* rank(L) <= rank(threshold), and false for every L when the threshold is
\* Off, whatever the level-to-stream mapping is.
C7_EnabledIsRankCompare ==
    last.op = "enabled" =>
       /\ ~last.panicked
       /\ last.ret = ClaimEnabled(last.level, unwrap(LOGGER_CONF).level_filter)

\* threshold Debug with a non-default mapping admits Debug
C7_Witness ==
    /\ last.op = "enabled"
    /\ last.level = "Debug"
    /\ last.ret
    /\ unwrap(LOGGER_CONF).level_filter = "Debug"
    /\ unwrap(LOGGER_CONF).debug_stream = "StdOut"
    /\ unwrap(LOGGER_CONF).trace_stream = "StdOut"

\* C8: with a configuration installed, a log() call of level L issues no write
\* when L is not enabled, and otherwise exactly one sceIoWrite, on the handle
\* of the stream the configuration maps L to, of the payload followed by "\n"
\* and a zero byte; whatever sceIoWrite returns, nothing more is written.
C8_OneWritePerAcceptedEvent ==
    [][ (budget' = budget - 1 /\ last'.op = "log" /\ LOGGER_CONF # None) =>
          /\ ~last'.panicked
          /\ IF ClaimEnabled(last'.level, unwrap(LOGGER_CONF).level_filter)
               THEN writes' = Append(writes,
                        [fh |-> ClaimHandle(unwrap(LOGGER_CONF)[ClaimField[last'.level]]),
                         data |-> last'.args \o << 10, 0 >>,
                         size |-> Len(last'.args) + 2])
               ELSE writes' = writes
      ]_vars

\* three log() calls of which two were accepted: "ready\n\0" went to stdout,
\* the other write to stderr, and the last sceIoWrite reported failure
C8_Witness ==
    /\ budget = 0
    /\ Len(writes) = 2
    /\ \E i \in 1..2 : writes[i] = [fh |-> "sceKernelStdout",
                                    data |-> << 114, 101, 97, 100, 121, 10, 0 >>,
                                    size |-> 7]
    /\ \E i \in 1..2 : writes[i].fh = "sceKernelStderr"
    /\ last.rc = "fail"

\* C9: after new(T) and any chain of with_*_stream calls, get_stream(X) is the
\* stream of the last override made for X, or StdErr when there was none, and
\* the threshold is still T; the last call left every other level's stream and
\* the threshold as they were, and repeating a call gave the same value again.
ClaimLast(h, op) ==
    LET idx == { i \in 1..Len(h) : h[i].op = op }
    IN  IF idx = {} THEN "StdErr"
        ELSE h[CHOOSE i \in idx : \A j \in idx : j <= i].arg

ClaimOp == [Error |-> "with_error_stream", Warn |-> "with_warn_stream",
            Info |-> "with_info_stream", Debug |-> "with_debug_stream",
            Trace |-> "with_trace_stream"]

C9_BuilderFrame ==
    cfg # None =>
      /\ unwrap(cfg).level_filter = hist[1].arg
      /\ \A x \in Level : get_stream(unwrap(cfg), x) = ClaimLast(hist, ClaimOp[x])
      /\ Len(hist) >= 2 =>
           /\ unwrap(cfg).level_filter = unwrap(prev).level_filter
           /\ \A y \in Level :
                ClaimOp[y] # hist[Len(hist)].op =>
                   get_stream(unwrap(cfg), y) = get_stream(unwrap(prev), y)
      /\ (Len(hist) >= 3 /\ hist[Len(hist)] = hist[Len(hist) - 1]) => cfg = prev

\* new(Debug).with_info_stream(StdOut).with_debug_stream(StdOut) and the last
\* call once more
C9_Witness ==
    /\ Len(hist) = 4
    /\ hist[1] = [op |-> "new", arg |-> "Debug"]
    /\ hist[2] = [op |-> "with_info_stream", arg |-> "StdOut"]
    /\ hist[3] = [op |-> "with_debug_stream", arg |-> "StdOut"]
    /\ hist[4] = hist[3]

\* C10: whenever PspLogger is the registered logger, LOGGER_CONF already holds
\* a configuration, and no evaluation that came through the log macros panicked.
C10_RegisteredImpliesStored ==
    /\ logger = "Psp" => LOGGER_CONF # None
    /\ last.via = "macro" => ~last.panicked

\* a log macro reached the dispatcher while the registering init call had not
\* yet set the global maximum level
C10_Witness ==
    /\ logger = "Psp"
    /\ \E t \in Threads : pc[t] = "set_max_level"
    /\ last.via = "macro"
    /\ last.op = "log"

====
